---- MODULE Spec2Model ----
(***************************************************************************)
(* Throw detection pipeline of src/analysis/stone.py: main() walks the     *)
(* sqlite3 files of the data directory and plot_db() runs, per file, the   *)
(* threshold segmenter, the rectified trapezoidal velocity integration,    *)
(* the peak location, the +-1 s extraction and the save of the extracted   *)
(* rows under a batch-wide throw id.                                       *)
(*                                                                         *)
(* Units.  accel_x is held in tenths of g (0.1 g = 1), device timestamps   *)
(* and receipt times in milliseconds, G in hundredths of m/s^2.  The code  *)
(* accumulates (a0*G + a1*G) * ((t1-t0)/1000) / 2; the model accumulates   *)
(* the integer (a0*G + a1*G) * (t1-t0), i.e. the velocity in units of      *)
(* 1/2000000 m/s, so that sign and equality are those of exact arithmetic. *)
(***************************************************************************)
EXTENDS Integers, Sequences, FiniteSets, TLC

VARIABLES
    pc,              \* position of main(): "start", "for_db", "loop", "done"
    n_files,         \* len(db_files), the sqlite3 files found by the glob
    file_idx,        \* number of db_files already handed to plot_db
    output_db,       \* rows of throw_peak_data.sqlite3, in insertion order
    global_throw_id, \* main(): global_throw_id
    all_data,        \* plot_db(): all_data
    idx,             \* plot_db(): number of samples consumed by the for loop
    data_queue,      \* plot_db(): data_queue
    maxlen,          \* plot_db(): data_queue.maxlen
    over_flag,       \* plot_db(): over_flag (TRUE = ARMED, FALSE = IDLE)
    counter,         \* plot_db(): counter
    limen,           \* plot_db(): limen
    peak_time,       \* plot_db(): peak_time
    throw_id,        \* plot_db(): throw_id
    velocity,        \* plot_db(): velocity of the latest closed window
    dq,              \* plot_db(): dq, the latest closed window
    closed_windows,  \* number of "velocity=" lines printed for this source
    saved_log,       \* throw ids of the "Throw .. peak data saved" lines
    armed_at,        \* history: idx at which the current ARMED period began
    data_dir,        \* rows of the sqlite3 files of the data directory, when fixed
    run,             \* number of the invocation of main() over the data directory
    prev_store,      \* history: output_db at the end of the previous invocation
    failed_saves,    \* number of save_throw_peak_data calls that raised
    is_sending,         \* UDPSenderGUI.is_sending
    send_thread,        \* UDPSenderGUI.send_thread: 0 for None, else the thread
    is_replaying,       \* UDPSenderGUI.is_replaying
    current_data_list,  \* UDPSenderGUI.current_data_list: the timestamps of the rows
    current_data_index, \* UDPSenderGUI.current_data_index
    thread_pc,          \* position of each Thread(target=send_data_loop)
    gui_pc              \* position of the thread that runs the GUI callbacks

vars == <<pc, n_files, file_idx, output_db, global_throw_id, all_data, idx,
          data_queue, maxlen, over_flag, counter, limen, peak_time, throw_id,
          velocity, dq, closed_windows, saved_log, armed_at,
          data_dir, run, prev_store, failed_saves,
          is_sending, send_thread, is_replaying, current_data_list,
          current_data_index, thread_pc, gui_pc>>

(***************************************************************************)
(* Bounds of the explored inputs.                                          *)
(***************************************************************************)
MaxSources == 2       \* sqlite3 files in a batch
MaxSamples == 6       \* rows per file in the batch specification
SegMaxSamples == 5    \* rows per file in the segmenter specification
VelMaxSamples == 4    \* rows per file in the integration specification
QueueMaxLen == 4      \* deque capacity explored (the code's value is 10)
BatchQueueLen == 3    \* deque capacity explored in the batch specification
RecvMaxSamples == 5   \* rows per file in the extraction specification
RerunMaxSamples == 3  \* rows per file in the repeated-run specification
MaxThreads == 3       \* send_data_loop threads created by the sender GUI
MaxReplay == 2        \* rows of a throw loaded into the sender GUI

(***************************************************************************)
(* Program constants.                                                      *)
(***************************************************************************)
G == 981              \* 9.81 m/s^2 in hundredths
Limen == 1            \* limen = 0.1 g in tenths of g
DequeMaxLen == 10     \* deque(maxlen=10)
WindowSeconds == 1    \* extract_peak_data(all_data, peak_time, 1)
StartThrowId == 1     \* global_throw_id = 1
NoTime == -1          \* peak_time = None

Max(a, b) == IF a >= b THEN a ELSE b
Abs(a) == IF a >= 0 THEN a ELSE 0 - a

Last(s) == s[Len(s)]

(***************************************************************************)
(* Inputs: the rows a source file can hold.                                *)
(***************************************************************************)
Sample(a, t, r) == [accel_x |-> a, timestamp |-> t, received_at |-> r]

\* rows sampled every 100 ms by the device and received 600 ms apart
ClockedSource(acc) ==
    [i \in 1..Len(acc) |-> Sample(acc[i], 100 * i, 5000 + 600 * i)]

RECURSIVE SumTo(_, _)
SumTo(f, i) == IF i = 0 THEN 0 ELSE f[i] + SumTo(f, i - 1)

\* rows whose device timestamps advance by the given steps after the first row
SteppedSource(acc, dts) ==
    [i \in 1..Len(acc) |-> Sample(acc[i], 1000 + SumTo(dts, i - 1), 5000 + 600 * i)]

\* rows whose receipt times advance by the given steps after the first row
ReceivedSource(acc, gaps) ==
    [i \in 1..Len(acc) |-> Sample(acc[i], 100 * i, 5000 + SumTo(gaps, i - 1))]

BatchAccel == {-1, 2}
RecvSteps == {-500, 1000, 1001}
SegAccel == {-1, 0, 1, 2, 3}
VelAccel == {-1, 0, 2}
VelSteps == {-100, 0, 100}

BatchSources ==
    UNION {{ClockedSource(acc) : acc \in [1..n -> BatchAccel]} : n \in 0..MaxSamples}

SegSources ==
    UNION {{ClockedSource(acc) : acc \in [1..n -> SegAccel]} : n \in 0..SegMaxSamples}

\* the end-to-end scenario: rows at t = 0, 100, ..., 1000 ms; at most 0.8 g
\* before t = 300, 1.2 g at t = 300, not negative at t = 400, -0.1 g at t = 500
E2EAccel ==
    {pre \o <<12, at400, -1>> \o post :
        pre \in [1..3 -> {0, 4, 8}], at400 \in {0, 5, 12, 15}, post \in [1..5 -> {-1, 9}]}

E2ESources ==
    {[i \in 1..11 |-> Sample(acc[i], 100 * (i - 1), 5000 + 600 * i)] : acc \in E2EAccel}

VelSources ==
    UNION {{SteppedSource(acc, dts) : acc \in [1..n -> VelAccel],
                                      dts \in [1..(n - 1) -> VelSteps]} :
           n \in 0..VelMaxSamples}

\* rows received exactly 1 s apart, just over 1 s apart, or out of order
RecvSources ==
    UNION {{ReceivedSource(acc, gaps) : acc \in [1..n -> BatchAccel],
                                        gaps \in [1..(n - 1) -> RecvSteps]} :
           n \in 0..RecvMaxSamples}

RerunSources ==
    UNION {{ClockedSource(acc) : acc \in [1..n -> BatchAccel]} : n \in 0..RerunMaxSamples}

\* rows left in throw_peak_data.sqlite3 by an earlier run
StaleRows == <<[throw_id |-> 7, timestamp |-> 100, received_at |-> 100, accel_x |-> 2]>>

(***************************************************************************)
(* plot_db(): the pieces of the loop body.                                 *)
(***************************************************************************)
\* variant: the locals of plot_db start with the segmenter armed
FreshLocals_Armed(start_throw_id) ==
    [data_queue |-> <<>>, over_flag |-> TRUE, counter |-> 0,
     peak_time |-> NoTime, throw_id |-> start_throw_id]

\* data_queue = deque(maxlen=10); over_flag = False; counter = 0;
\* peak_time = None; throw_id = start_throw_id
FreshLocals(start_throw_id) ==
    [data_queue |-> <<>>, over_flag |-> FALSE, counter |-> 0,
     peak_time |-> NoTime, throw_id |-> start_throw_id]

\* variant: a list that never evicts
DequeAppend_Unbounded(queue, data, m) == Append(queue, data)

\* data_queue.append(data) on a deque(maxlen=m)
DequeAppend(queue, data, m) ==
    IF Len(queue) < m THEN Append(queue, data) ELSE Append(Tail(queue), data)

\* variant: the threshold itself arms (>= instead of >)
Trigger_AtOrAbove(accel_x, lim) == accel_x >= lim

\* if data.accel_x > limen
Trigger(accel_x, lim) == accel_x > lim

\* variant: the counter is never reset
ResetCounter_Never(trig, cnt) == cnt

\* variant: the counter is reset only while it has not counted yet
ResetCounter_FirstOnly(trig, cnt) == IF trig /\ cnt = 0 THEN 0 ELSE cnt

\* counter = 0, inside "if data.accel_x > limen:"
ResetCounter(trig, cnt) == IF trig THEN 0 ELSE cnt

\* variant: the sample is counted twice (counter += 2)
CountSample_Twice(flag, cnt) == IF flag THEN cnt + 2 ELSE cnt

\* if over_flag: counter += 1
CountSample(flag, cnt) == IF flag THEN cnt + 1 ELSE cnt

\* variant: the runaway guard is missing
ShouldClose_NoGuard(flag, accel_x, cnt, qlen) == flag /\ accel_x < 0

\* variant: a sample of exactly 0 closes (<= instead of <)
ShouldClose_AtZero(flag, accel_x, cnt, qlen) == flag /\ (accel_x <= 0 \/ cnt > qlen)

\* variant: the runaway guard fires one sample early (>= instead of >)
ShouldClose_AtLength(flag, accel_x, cnt, qlen) == flag /\ (accel_x < 0 \/ cnt >= qlen)

\* if over_flag and (data.accel_x < 0 or counter > len(data_queue))
ShouldClose(flag, accel_x, cnt, qlen) == flag /\ (accel_x < 0 \/ cnt > qlen)

\* variant: over_flag = False indented into "if peak_data:"
OverFlagAfter_OnlyWhenSaved(flag, closing, saved) == flag /\ ~(closing /\ saved)

\* variant: the closing iteration does not clear over_flag
OverFlagAfter_Kept(flag, closing, saved) == flag

\* over_flag = False, the last statement of a closing iteration
OverFlagAfter(flag, closing, saved) == flag /\ ~closing

\* variant: negative accelerations are not rectified
Rectify_Identity(accel_x) == accel_x

\* max(dq[i].accel_x, 0)
Rectify(accel_x) == Max(accel_x, 0)

\* variant: the difference is taken the other way round (t0 - t1)
DeltaT_Reversed(t0, t1) == t0 - t1

\* dt = (t1 - t0) / 1000, in milliseconds
DeltaT(t0, t1) == t1 - t0

\* variant: the first qualifying pair is kept
LocatePeak_KeepFirst(a0, a1, received_at, peak) ==
    IF a1 > a0 /\ peak = NoTime THEN received_at ELSE peak

\* variant: a pair of equal accelerations qualifies (>= instead of >)
LocatePeak_NonStrict(a0, a1, received_at, peak) == IF a1 >= a0 THEN received_at ELSE peak

\* if a1 > a0: peak_time = dq[i].received_at
LocatePeak(a0, a1, received_at, peak) == IF a1 > a0 THEN received_at ELSE peak

\* for i in range(1, len(dq)): the body, from the 1-based position i on
RECURSIVE IntegrateFrom(_, _, _, _)
IntegrateFrom(w, i, vel, peak) ==
    IF i > Len(w) THEN [velocity |-> vel, peak_time |-> peak]
    ELSE LET a0 == Rectify(w[i - 1].accel_x) * G
             a1 == Rectify(w[i].accel_x) * G
             dt == DeltaT(w[i - 1].timestamp, w[i].timestamp)
         IN  IntegrateFrom(w, i + 1, vel + (a0 + a1) * dt,
                           LocatePeak(a0, a1, w[i].received_at, peak))

\* velocity = 0; dq = list(data_queue); for ...
Integrate(w, peak) == IntegrateFrom(w, 2, 0, peak)

\* variant: the bounds of the window are exclusive (< instead of <=)
ExtractPeakData_Exclusive(data, peak, window_seconds) ==
    IF peak = NoTime THEN <<>>
    ELSE SelectSeq(data, LAMBDA d :
             /\ d.received_at # NoTime
             /\ Abs(d.received_at - peak) < window_seconds * 1000)

\* variant: the newest sample is put first (insert(0, data) instead of append)
ExtractPeakData_NewestFirst(data, peak, window_seconds) ==
    IF peak = NoTime THEN <<>>
    ELSE LET sel == SelectSeq(data, LAMBDA d :
                        /\ d.received_at # NoTime
                        /\ Abs(d.received_at - peak) <= window_seconds * 1000)
         IN  [k \in 1..Len(sel) |-> sel[Len(sel) + 1 - k]]

\* variant: the sample received at the peak itself is left out
ExtractPeakData_WithoutPeak(data, peak, window_seconds) ==
    IF peak = NoTime THEN <<>>
    ELSE SelectSeq(data, LAMBDA d :
             /\ d.received_at # NoTime
             /\ d.received_at # peak
             /\ Abs(d.received_at - peak) <= window_seconds * 1000)

\* extract_peak_data(all_data, peak_time, window_seconds)
ExtractPeakData(data, peak, window_seconds) ==
    IF peak = NoTime THEN <<>>
    ELSE SelectSeq(data, LAMBDA d :
             /\ d.received_at # NoTime
             /\ Abs(d.received_at - peak) <= window_seconds * 1000)

\* ThrowPeakDataDB(throw_id=throw_id, ...) for each data in peak_data
PeakRows(peak_data, id) ==
    [k \in 1..Len(peak_data) |->
        [throw_id |-> id,
         timestamp |-> peak_data[k].timestamp,
         received_at |-> peak_data[k].received_at,
         accel_x |-> peak_data[k].accel_x]]

\* variant: the table is recreated by every save
SaveThrowPeakData_Recreate(store, peak_data, id) == PeakRows(peak_data, id)

\* save_throw_peak_data(peak_data, throw_id, output_db_path): the rows are
\* added in one "async with session.begin()" block and committed at its end
SaveThrowPeakData(store, peak_data, id) == store \o PeakRows(peak_data, id)

\* variant: every session.add is committed on its own
RollbackThrowPeakData_KeepsAdded(store, added, id) == store \o PeakRows(added, id)

\* save_throw_peak_data raising inside "async with session.begin()": the rows
\* added so far are rolled back
RollbackThrowPeakData(store, added, id) == store

\* variant: the save is not guarded by "if peak_data:"
Persists_Unguarded(peak, peak_data) == TRUE

\* if output_db_path and peak_time: ... if peak_data:
Persists(peak, peak_data) == peak # NoTime /\ peak_data # <<>>

\* variant: the existing output file is kept
PurgeStore_Keep(store) == store

\* if output_db_path.exists(): output_db_path.unlink()
PurgeStore(store) == <<>>

\* variant: throw_id += 1 dedented to the level of the close
AdvanceThrowId_OnClose(id, closing, saved) == IF closing THEN id + 1 ELSE id

\* throw_id += 1, inside "if peak_data:" of a closing iteration
AdvanceThrowId(id, closing, saved) == IF closing /\ saved THEN id + 1 ELSE id

(***************************************************************************)
(* Initial states: main() has not started; the output file may hold the    *)
(* rows of an earlier run.                                                 *)
(***************************************************************************)
InitCommon(nmax, lim, cap) ==
    /\ pc = "start"
    /\ n_files \in 1..nmax
    /\ file_idx = 0
    /\ output_db \in {<<>>, StaleRows}
    /\ global_throw_id = 0
    /\ all_data = <<>>
    /\ idx = 0
    /\ data_queue = <<>>
    /\ maxlen = cap
    /\ over_flag = FALSE
    /\ counter = 0
    /\ limen = lim
    /\ peak_time = NoTime
    /\ throw_id = 0
    /\ velocity = 0
    /\ dq = <<>>
    /\ closed_windows = 0
    /\ saved_log = <<>>
    /\ armed_at = 0
    /\ run = 1
    /\ prev_store = <<>>
    /\ failed_saves = 0
    /\ is_sending = FALSE
    /\ send_thread = 0
    /\ is_replaying = FALSE
    /\ current_data_list = <<>>
    /\ current_data_index = 0
    /\ thread_pc = [t \in 1..MaxThreads |-> "unstarted"]
    /\ gui_pc = "idle"

\* the rows of the files are drawn when plot_db reads them
InitWith(nmax, lim, cap) == InitCommon(nmax, lim, cap) /\ data_dir = <<>>

\* state outside main() and plot_db(): the files and the history of the runs
batchEnv == <<data_dir, run, prev_store, failed_saves>>

\* the state of the sender GUI, a separate program
guiVars == <<is_sending, send_thread, is_replaying, current_data_list,
             current_data_index, thread_pc, gui_pc>>

plotLocals == <<all_data, idx, data_queue, over_flag, counter, peak_time,
                throw_id, velocity, dq, closed_windows, armed_at>>

\* main(): remove the existing output file, global_throw_id = 1
MainStart ==
    /\ pc = "start"
    /\ output_db' = PurgeStore(output_db)
    /\ global_throw_id' = StartThrowId
    /\ pc' = "for_db"
    /\ UNCHANGED <<n_files, file_idx, maxlen, limen, saved_log>>
    /\ UNCHANGED plotLocals
    /\ UNCHANGED batchEnv
    /\ UNCHANGED guiVars

\* plot_db(): get_all_data() and the initialisation of the locals; a file
\* without rows returns start_throw_id at once
PlotDbBegin(Sources) ==
    /\ pc = "for_db"
    /\ file_idx < n_files
    /\ \E rows \in Sources :
          /\ all_data' = rows
          /\ IF rows = <<>>
             THEN /\ pc' = "for_db"
                  /\ file_idx' = file_idx + 1
             ELSE /\ pc' = "loop"
                  /\ file_idx' = file_idx
    /\ idx' = 0
    /\ LET fresh == FreshLocals(global_throw_id)
       IN  /\ data_queue' = fresh.data_queue
           /\ over_flag' = fresh.over_flag
           /\ counter' = fresh.counter
           /\ peak_time' = fresh.peak_time
           /\ throw_id' = fresh.throw_id
           /\ armed_at' = IF fresh.over_flag THEN 1 ELSE 0
    /\ velocity' = 0
    /\ dq' = <<>>
    /\ closed_windows' = 0
    /\ UNCHANGED <<n_files, output_db, global_throw_id, maxlen, limen, saved_log>>
    /\ UNCHANGED batchEnv
    /\ UNCHANGED guiVars

\* plot_db(): one iteration of "for data in all_data"
Feed ==
    /\ pc = "loop"
    /\ idx < Len(all_data)
    /\ LET data == all_data[idx + 1]
           queue == DequeAppend(data_queue, data, maxlen)
           trig == Trigger(data.accel_x, limen)
           flag == over_flag \/ trig
           cnt == CountSample(flag, ResetCounter(trig, counter))
           close == ShouldClose(flag, data.accel_x, cnt, Len(queue))
           res == Integrate(queue, peak_time)
           peak_data == ExtractPeakData(all_data, res.peak_time, WindowSeconds)
           saved == Persists(res.peak_time, peak_data)
       IN  /\ idx' = idx + 1
           /\ data_queue' = queue
           /\ counter' = cnt
           /\ over_flag' = OverFlagAfter(flag, close, saved)
           /\ armed_at' = IF OverFlagAfter(flag, close, saved)
                          THEN (IF over_flag THEN armed_at ELSE idx + 1)
                          ELSE 0
           /\ velocity' = IF close THEN res.velocity ELSE velocity
           /\ dq' = IF close THEN queue ELSE dq
           /\ peak_time' = IF close THEN res.peak_time ELSE peak_time
           /\ closed_windows' = IF close THEN closed_windows + 1 ELSE closed_windows
           /\ output_db' = IF close /\ saved
                           THEN SaveThrowPeakData(output_db, peak_data, throw_id)
                           ELSE output_db
           /\ saved_log' = IF close /\ saved
                           THEN Append(saved_log, throw_id)
                           ELSE saved_log
           /\ throw_id' = AdvanceThrowId(throw_id, close, saved)
    /\ UNCHANGED <<pc, n_files, file_idx, global_throw_id, all_data, maxlen, limen>>
    /\ UNCHANGED batchEnv
    /\ UNCHANGED guiVars

\* plot_db(): the iteration whose save_throw_peak_data raises after some of
\* the rows were added to the session; nothing catches the exception in
\* plot_db or main, so the process ends with the traceback
SaveFails ==
    /\ pc = "loop"
    /\ idx < Len(all_data)
    /\ LET data == all_data[idx + 1]
           queue == DequeAppend(data_queue, data, maxlen)
           trig == Trigger(data.accel_x, limen)
           flag == over_flag \/ trig
           cnt == CountSample(flag, ResetCounter(trig, counter))
           close == ShouldClose(flag, data.accel_x, cnt, Len(queue))
           res == Integrate(queue, peak_time)
           peak_data == ExtractPeakData(all_data, res.peak_time, WindowSeconds)
           saved == Persists(res.peak_time, peak_data)
       IN  /\ close /\ saved
           /\ \E k \in 0..Len(peak_data) :
                 output_db' = RollbackThrowPeakData(output_db, SubSeq(peak_data, 1, k),
                                                    throw_id)
    /\ failed_saves' = failed_saves + 1
    /\ pc' = "aborted"
    /\ UNCHANGED <<n_files, file_idx, global_throw_id, maxlen, limen, saved_log>>
    /\ UNCHANGED plotLocals
    /\ UNCHANGED <<data_dir, run, prev_store>>
    /\ UNCHANGED guiVars

\* plot_db(): return throw_id; main(): global_throw_id = plot_db(...)
PlotDbReturn ==
    /\ pc = "loop"
    /\ idx = Len(all_data)
    /\ global_throw_id' = throw_id
    /\ file_idx' = file_idx + 1
    /\ pc' = "for_db"
    /\ UNCHANGED <<n_files, output_db, maxlen, limen, saved_log>>
    /\ UNCHANGED plotLocals
    /\ UNCHANGED batchEnv
    /\ UNCHANGED guiVars

\* main(): the for loop over db_files is exhausted
MainEnd ==
    /\ pc = "for_db"
    /\ file_idx = n_files
    /\ pc' = "done"
    /\ UNCHANGED <<n_files, file_idx, output_db, global_throw_id, maxlen, limen, saved_log>>
    /\ UNCHANGED plotLocals
    /\ UNCHANGED batchEnv
    /\ UNCHANGED guiVars

\* the script is started again over the same data directory: a new process,
\* with the output file as the finished run left it
Rerun ==
    /\ pc = "done"
    /\ run = 1
    /\ run' = 2
    /\ prev_store' = output_db
    /\ pc' = "start"
    /\ file_idx' = 0
    /\ global_throw_id' = 0
    /\ all_data' = <<>>
    /\ idx' = 0
    /\ data_queue' = <<>>
    /\ over_flag' = FALSE
    /\ counter' = 0
    /\ peak_time' = NoTime
    /\ throw_id' = 0
    /\ velocity' = 0
    /\ dq' = <<>>
    /\ closed_windows' = 0
    /\ saved_log' = <<>>
    /\ armed_at' = 0
    /\ UNCHANGED <<n_files, output_db, maxlen, limen, data_dir, failed_saves>>
    /\ UNCHANGED guiVars

\* a batch over several small sources
Init == InitWith(MaxSources, Limen, BatchQueueLen)
Next == MainStart \/ PlotDbBegin(BatchSources) \/ Feed \/ SaveFails \/ PlotDbReturn \/ MainEnd
Spec == Init /\ [][Next]_vars

\* one source over the full range of accelerations
InitSeg == InitWith(1, Limen, QueueMaxLen)
NextSeg == MainStart \/ PlotDbBegin(SegSources) \/ Feed \/ SaveFails \/ PlotDbReturn \/ MainEnd
SpecSeg == InitSeg /\ [][NextSeg]_vars

\* one source whose device timestamps advance, stall or go back
InitVel == InitWith(1, Limen, QueueMaxLen)
NextVel == MainStart \/ PlotDbBegin(VelSources) \/ Feed \/ SaveFails \/ PlotDbReturn \/ MainEnd
SpecVel == InitVel /\ [][NextVel]_vars

\* the end-to-end scenario, with T_high = 0.8 g and the code's capacity of 10
InitE2E == InitWith(1, 8, DequeMaxLen)
NextE2E == MainStart \/ PlotDbBegin(E2ESources) \/ Feed \/ SaveFails \/ PlotDbReturn \/ MainEnd
SpecE2E == InitE2E /\ [][NextE2E]_vars

\* one source whose receipt times advance by 1 s, by just over 1 s or go back
InitRecv == InitWith(1, Limen, QueueMaxLen)
NextRecv == MainStart \/ PlotDbBegin(RecvSources) \/ Feed \/ SaveFails \/ PlotDbReturn \/ MainEnd
SpecRecv == InitRecv /\ [][NextRecv]_vars

\* one source, with the for loops of main and plot_db running to their end
InitLive == InitWith(1, Limen, BatchQueueLen)
NextLive == MainStart \/ PlotDbBegin(BatchSources) \/ Feed \/ SaveFails \/ PlotDbReturn \/ MainEnd
SpecLive ==
    /\ InitLive
    /\ [][NextLive]_vars
    /\ WF_vars(MainStart)
    /\ WF_vars(PlotDbBegin(BatchSources))
    /\ WF_vars(Feed)
    /\ WF_vars(PlotDbReturn)
    /\ WF_vars(MainEnd)

\* the script run twice over a data directory whose files do not change
InitRerun ==
    /\ InitCommon(MaxSources, Limen, BatchQueueLen)
    /\ data_dir \in [1..n_files -> RerunSources]
NextRerun ==
    \/ MainStart
    \/ PlotDbBegin({data_dir[file_idx + 1]})
    \/ Feed
    \/ SaveFails
    \/ PlotDbReturn
    \/ MainEnd
    \/ Rerun
SpecRerun == InitRerun /\ [][NextRerun]_vars

(***************************************************************************)
(* udp_sender_gui_peak.py: UDPSenderGUI.  The GUI callbacks run one at a   *)
(* time on the callback thread; every Thread(target=send_data_loop) runs   *)
(* concurrently with it and with the other send threads.                   *)
(***************************************************************************)
pipelineVars == <<pc, n_files, file_idx, output_db, global_throw_id, all_data, idx,
                  data_queue, maxlen, over_flag, counter, limen, peak_time, throw_id,
                  velocity, dq, closed_windows, saved_log, armed_at,
                  data_dir, run, prev_store, failed_saves>>

\* the rows a throw can hold, sorted by timestamp
ReplayLists == {[i \in 1..n |-> 100 * i] : n \in 0..MaxReplay}

\* the Thread objects created so far
Started == {t \in 1..MaxThreads : thread_pc[t] # "unstarted"}

\* Thread.is_alive(): started and send_data_loop has not returned
Alive == {t \in 1..MaxThreads : thread_pc[t] \in {"while", "send", "sleep"}}

\* self.is_sending = True; self.send_thread = threading.Thread(...);
\* self.send_thread.start()
SpawnSendThread ==
    LET t == Cardinality(Started) + 1
    IN  /\ is_sending' = TRUE
        /\ send_thread' = t
        /\ thread_pc' = [thread_pc EXCEPT ![t] = "while"]

\* start_sending(): if not self.is_sending: ...
start_sending ==
    /\ gui_pc = "idle"
    /\ ~is_sending
    /\ Cardinality(Started) < MaxThreads
    /\ SpawnSendThread
    /\ UNCHANGED <<is_replaying, current_data_list, current_data_index, gui_pc>>
    /\ UNCHANGED pipelineVars

\* stop_sending(): self.is_sending = False, up to the join
stop_sending ==
    /\ gui_pc = "idle"
    /\ is_sending' = FALSE
    /\ gui_pc' = IF send_thread # 0 THEN "join" ELSE "idle"
    /\ UNCHANGED <<send_thread, is_replaying, current_data_list, current_data_index,
                   thread_pc>>
    /\ UNCHANGED pipelineVars

\* self.send_thread.join(timeout=1.0) returns because the thread has ended
JoinReturns ==
    /\ gui_pc = "join"
    /\ thread_pc[send_thread] = "finished"
    /\ gui_pc' = "idle"
    /\ UNCHANGED <<is_sending, send_thread, is_replaying, current_data_list,
                   current_data_index, thread_pc>>
    /\ UNCHANGED pipelineVars

\* self.send_thread.join(timeout=1.0) returns after 1 s while the thread is
\* in a time.sleep(current_sleep_time) longer than that
JoinTimesOut ==
    /\ gui_pc = "join"
    /\ thread_pc[send_thread] = "sleep"
    /\ gui_pc' = "idle"
    /\ UNCHANGED <<is_sending, send_thread, is_replaying, current_data_list,
                   current_data_index, thread_pc>>
    /\ UNCHANGED pipelineVars

\* start_replay(): if self.current_data_list: ...; if not self.is_sending:
\* self.start_sending()
start_replay ==
    /\ gui_pc = "idle"
    /\ current_data_list # <<>>
    /\ is_replaying' = TRUE
    /\ current_data_index' = 0
    /\ IF ~is_sending /\ Cardinality(Started) < MaxThreads
       THEN SpawnSendThread
       ELSE UNCHANGED <<is_sending, send_thread, thread_pc>>
    /\ UNCHANGED <<current_data_list, gui_pc>>
    /\ UNCHANGED pipelineVars

\* load_throw_data(): self.current_data_list = sorted(data_list, ...), run on
\* a thread of its own
load_throw_data ==
    /\ \E rows \in ReplayLists :
          /\ rows # current_data_list
          /\ current_data_list' = rows
    /\ UNCHANGED <<is_sending, send_thread, is_replaying, current_data_index,
                   thread_pc, gui_pc>>
    /\ UNCHANGED pipelineVars

\* send_data_loop(): while self.is_sending
LoopTest(t) ==
    /\ thread_pc[t] = "while"
    /\ thread_pc' = [thread_pc EXCEPT ![t] = IF is_sending THEN "send" ELSE "finished"]
    /\ UNCHANGED <<is_sending, send_thread, is_replaying, current_data_list,
                   current_data_index, gui_pc>>
    /\ UNCHANGED pipelineVars

\* send_data_loop(): the try block, one datagram sent
LoopSend(t) ==
    /\ thread_pc[t] = "send"
    /\ IF is_replaying /\ current_data_list # <<>>
       THEN IF current_data_index < Len(current_data_list)
            THEN /\ current_data_index' = current_data_index + 1
                 /\ UNCHANGED is_replaying
            ELSE /\ is_replaying' = FALSE
                 /\ current_data_index' = 0
       ELSE UNCHANGED <<is_replaying, current_data_index>>
    /\ thread_pc' = [thread_pc EXCEPT ![t] = "sleep"]
    /\ UNCHANGED <<is_sending, send_thread, current_data_list, gui_pc>>
    /\ UNCHANGED pipelineVars

\* send_data_loop(): time.sleep(current_sleep_time) returns
LoopWake(t) ==
    /\ thread_pc[t] = "sleep"
    /\ thread_pc' = [thread_pc EXCEPT ![t] = "while"]
    /\ UNCHANGED <<is_sending, send_thread, is_replaying, current_data_list,
                   current_data_index, gui_pc>>
    /\ UNCHANGED pipelineVars

\* the sender GUI: its callbacks and its send threads
InitGUI == InitWith(1, Limen, BatchQueueLen) /\ output_db = <<>>
NextGUI ==
    \/ start_sending
    \/ stop_sending
    \/ JoinReturns
    \/ JoinTimesOut
    \/ start_replay
    \/ load_throw_data
    \/ \E t \in 1..MaxThreads : LoopTest(t)
    \/ \E t \in 1..MaxThreads : LoopSend(t)
    \/ \E t \in 1..MaxThreads : LoopWake(t)
SpecGUI == InitGUI /\ [][NextGUI]_vars

(***************************************************************************)
(* Properties.                                                             *)
(***************************************************************************)
InLoop == pc = "loop"

\* the step is one iteration of the for loop of plot_db
FeedStep == pc = "loop" /\ idx' = idx + 1

\* the step closed a window
CloseStep == FeedStep /\ closed_windows' = closed_windows + 1

\* a window has been closed in the current source
HasClosed == InLoop /\ closed_windows > 0

\* positions i of a window whose pair (i-1, i) has a rising rectified acceleration
QualifyingPairs(w) ==
    {i \in 2..Len(w) : w[i].accel_x > 0 /\ w[i].accel_x > w[i - 1].accel_x}

SetMax(S) == CHOOSE m \in S : \A x \in S : x <= m

\* positions of the consumed samples above the threshold
Triggers == {j \in 1..idx : all_data[j].accel_x > limen}

\* C1: every closed window without a pair of rising rectified acceleration is
\* dropped: nothing is written to the store and the throw id is not advanced,
\* whichever windows were closed before it in the same source.
C1_NoPeakWindowDropped ==
    [][(CloseStep /\ QualifyingPairs(dq') = {})
          => (output_db' = output_db /\ throw_id' = throw_id)]_vars

\* C2: the ids of the persisted events are StartThrowId, StartThrowId + 1, ...
\* without gap or reuse across all sources of the batch; only a persisted
\* event consumes an id, and the id held after the last source is
\* StartThrowId + the number of persisted events.
C2_ThrowIdsGapless ==
    pc # "start" =>
        /\ \A k \in 1..Len(saved_log) : saved_log[k] = StartThrowId + k - 1
        /\ InLoop => throw_id = StartThrowId + Len(saved_log)
        /\ pc \in {"for_db", "done"} => global_throw_id = StartThrowId + Len(saved_log)
        /\ {output_db[k].throw_id : k \in 1..Len(output_db)}
               = {saved_log[k] : k \in 1..Len(saved_log)}
        /\ \A k \in 2..Len(output_db) :
               output_db[k].throw_id \in {output_db[k - 1].throw_id,
                                          output_db[k - 1].throw_id + 1}

C2_Witness ==
    /\ pc = "done"
    /\ n_files = 2
    /\ saved_log = <<1, 2, 3>>
    /\ global_throw_id = 4

\* the trapezoid sum of a window in which the pairs with dt <= 0 count as zero
RECURSIVE GuardedTrapezoidSum(_)
GuardedTrapezoidSum(w) ==
    IF Len(w) < 2 THEN 0
    ELSE LET n == Len(w)
             dt == w[n].timestamp - w[n - 1].timestamp
             a0 == IF w[n - 1].accel_x > 0 THEN w[n - 1].accel_x ELSE 0
             a1 == IF w[n].accel_x > 0 THEN w[n].accel_x ELSE 0
         IN  GuardedTrapezoidSum(SubSeq(w, 1, n - 1))
                 + (IF dt > 0 THEN (a0 + a1) * G * dt ELSE 0)

\* C3: in the velocity of a closed window every adjacent pair with dt <= 0
\* contributes exactly zero.
C3_NonPositiveDtContributesZero ==
    HasClosed => velocity = GuardedTrapezoidSum(dq)

\* C4 as stated: while ARMED, fewer than maxlen samples have been consumed
\* since the sample that armed the segmenter, so it closes on the maxlen-th
\* further sample at the latest, whatever the samples are.
C4_ClosesWithinOneBuffer ==
    (InLoop /\ over_flag) => idx - armed_at <= maxlen - 1

\* C4 amended: while ARMED, fewer than maxlen samples have been consumed since
\* the most recent sample above the threshold, so the segmenter closes on the
\* maxlen-th sample after it at the latest.
C4_ClosesWithinOneBufferOfLastTrigger ==
    (InLoop /\ over_flag) => (Triggers # {} /\ idx - SetMax(Triggers) <= maxlen - 1)

C4_Witness ==
    /\ HasClosed
    /\ ~over_flag
    /\ all_data[idx].accel_x >= 0
    /\ Triggers # {}
    /\ idx - SetMax(Triggers) = maxlen

\* C5: as long as no consumed sample exceeds the threshold the segmenter is
\* IDLE, no window has been closed and nothing is persisted.
C5_BelowThresholdNeverArms ==
    (InLoop /\ \A i \in 1..idx : all_data[i].accel_x <= limen)
        => /\ ~over_flag
           /\ closed_windows = 0
           /\ output_db = <<>>
           /\ saved_log = <<>>
           /\ throw_id = StartThrowId

C5_Witness ==
    /\ InLoop
    /\ idx = Len(all_data)
    /\ idx >= 3
    /\ \A i \in 1..idx : all_data[i].accel_x <= limen
    /\ \E i \in 1..idx : all_data[i].accel_x = limen
    /\ \E i \in 1..idx : all_data[i].accel_x < 0

\* C6: from IDLE a sample arms the segmenter exactly when its accel_x is
\* strictly above the threshold; the counter is then 1 (reset, then counted)
\* and the arming sample does not close a window.
C6_ArmsIffAboveThreshold ==
    [][(FeedStep /\ ~over_flag)
          => /\ over_flag' <=> all_data[idx'].accel_x > limen
             /\ over_flag' => counter' = 1
             /\ all_data[idx'].accel_x > limen => closed_windows' = closed_windows]_vars

C6_Witness ==
    /\ InLoop
    /\ over_flag
    /\ armed_at = idx
    /\ closed_windows > 0
    /\ counter = 1

\* C7: while ARMED a sample closes the window exactly when its accel_x < 0 or
\* the counter, after counting the sample, exceeds the buffer length; the
\* close returns to IDLE and emits the buffer, closing sample included; a
\* sample of exactly 0 with the counter within the buffer length stays ARMED.
C7_ClosesIffNegativeOrRunaway ==
    [][(FeedStep /\ over_flag)
          => LET a == all_data[idx'].accel_x
                 closes == a < 0 \/ counter' > Len(data_queue')
             IN  /\ (closed_windows' = closed_windows + 1) <=> closes
                 /\ closed_windows' \in {closed_windows, closed_windows + 1}
                 /\ over_flag' <=> ~closes
                 /\ closes => (dq' = data_queue' /\ Last(dq') = all_data[idx'])
                 /\ (a = 0 /\ counter' <= Len(data_queue')) => over_flag']_vars

C7_Witness ==
    /\ InLoop
    /\ idx >= 3
    /\ closed_windows = 1
    /\ ~over_flag
    /\ all_data[idx].accel_x < 0
    /\ all_data[idx - 1].accel_x = 0
    /\ all_data[idx - 2].accel_x > limen

\* the reference sum over the adjacent pairs of a window
RECURSIVE TrapezoidSum(_)
TrapezoidSum(w) ==
    IF Len(w) < 2 THEN 0
    ELSE LET n == Len(w)
             a0 == IF w[n - 1].accel_x > 0 THEN w[n - 1].accel_x ELSE 0
             a1 == IF w[n].accel_x > 0 THEN w[n].accel_x ELSE 0
         IN  TrapezoidSum(SubSeq(w, 1, n - 1))
                 + (a0 + a1) * G * (w[n].timestamp - w[n - 1].timestamp)

\* C8: the velocity of a closed window is the reference sum over its adjacent
\* pairs of (max(a0,0) + max(a1,0)) * G * (t1 - t0), negative accelerations
\* counting as zero; a window of two samples gives the trapezoid of its pair.
C8_VelocityIsTrapezoidSum ==
    HasClosed =>
        /\ velocity = TrapezoidSum(dq)
        /\ Len(dq) = 2 =>
              velocity = (IF dq[1].accel_x > 0 THEN dq[1].accel_x ELSE 0)
                             * G * (dq[2].timestamp - dq[1].timestamp)
                       + (IF dq[2].accel_x > 0 THEN dq[2].accel_x ELSE 0)
                             * G * (dq[2].timestamp - dq[1].timestamp)

C8_Witness ==
    /\ HasClosed
    /\ Len(dq) = 3
    /\ dq[1].accel_x < 0
    /\ dq[2].accel_x > 0
    /\ dq[3].accel_x < 0
    /\ dq[2].timestamp > dq[1].timestamp
    /\ dq[3].timestamp > dq[2].timestamp
    /\ velocity > 0

\* C9: a close sets peak_time to the received_at of the later sample of the
\* last pair of the window with a rising rectified acceleration, overwriting
\* the earlier such pairs; a pair of two accelerations <= 0 is not such a
\* pair, so a window with no other rise leaves peak_time as it was.
C9_PeakIsLastQualifyingPair ==
    [][CloseStep
          => IF QualifyingPairs(dq') # {}
             THEN peak_time' = dq'[SetMax(QualifyingPairs(dq'))].received_at
             ELSE peak_time' = peak_time]_vars

C9_Witness ==
    /\ HasClosed
    /\ Cardinality(QualifyingPairs(dq)) >= 2
    /\ peak_time = dq[SetMax(QualifyingPairs(dq))].received_at

\* positions up to the t = 400 ms sample whose acceleration exceeds the previous one
E2ERising == {i \in 2..5 : all_data[i].accel_x > all_data[i - 1].accel_x}

SaveStep == FeedStep /\ saved_log' = Append(saved_log, throw_id)

\* the step is the save_throw_peak_data call that raised
FailStep == failed_saves' = failed_saves + 1

\* the rows the step added at the end of the store
NewRows == SubSeq(output_db', Len(output_db) + 1, Len(output_db'))

\* a stored row holds the fields of a sample
RowOf(row, sample) ==
    /\ row.timestamp = sample.timestamp
    /\ row.received_at = sample.received_at
    /\ row.accel_x = sample.accel_x

\* positions of the samples of a source received within 1 s of a time
WithinHalfWidth(data, peak) ==
    {i \in 1..Len(data) :
        data[i].received_at - peak <= 1000 /\ peak - data[i].received_at <= 1000}

\* the samples of a source received within 1 s of a time, in source order
RECURSIVE WindowAround(_, _)
WindowAround(data, peak) ==
    IF data = <<>> THEN <<>>
    ELSE LET rest == WindowAround(SubSeq(data, 1, Len(data) - 1), peak)
         IN  IF Len(data) \in WithinHalfWidth(data, peak)
             THEN Append(rest, Last(data))
             ELSE rest

NonDecreasingReceipt(seq) ==
    \A k \in 2..Len(seq) : seq[k - 1].received_at <= seq[k].received_at

StoredIds == {output_db[k].throw_id : k \in 1..Len(output_db)}

\* C11: the rows saved for an event are exactly the samples of the source
\* received within 1 s of peak_time, both bounds included: one row per such
\* sample, and no row of a sample outside the window.
C11_ExtractIsSymmetricWindow ==
    [][SaveStep
          => LET inside == WithinHalfWidth(all_data, peak_time')
             IN  /\ Len(NewRows) = Cardinality(inside)
                 /\ \A i \in inside : \E k \in 1..Len(NewRows) : RowOf(NewRows[k], all_data[i])
                 /\ \A k \in 1..Len(NewRows) :
                       \E i \in inside : RowOf(NewRows[k], all_data[i])]_vars

C11_Witness ==
    /\ InLoop
    /\ closed_windows = 1
    /\ Len(saved_log) = 1
    /\ \E k \in 1..Len(output_db) : output_db[k].received_at = peak_time + 1000
    /\ \E i \in 1..Len(all_data) : all_data[i].received_at = peak_time - 1001

\* the position in the source of the sample a stored row was made from
SourcePosition(row) == CHOOSE i \in 1..Len(all_data) : RowOf(row, all_data[i])

\* C12: the rows saved for an event keep the order of the source, so they are
\* in ascending receipt order whenever the source is non-decreasing in
\* received_at.
C12_EventKeepsSourceOrder ==
    [][SaveStep
          => /\ \A k \in 2..Len(NewRows) :
                   SourcePosition(NewRows[k - 1]) < SourcePosition(NewRows[k])
             /\ NonDecreasingReceipt(all_data) => NonDecreasingReceipt(NewRows)]_vars

C12_Witness ==
    /\ InLoop
    /\ Len(saved_log) = 1
    /\ NonDecreasingReceipt(all_data)
    /\ Len(output_db) >= 3
    /\ output_db[1].received_at < output_db[2].received_at
    /\ output_db[2].received_at < output_db[3].received_at

\* C13: an event without samples is never persisted: every save writes at
\* least one row, and a close with no peak_time or with an empty extraction
\* writes nothing and leaves the throw id as it was.
C13_NoEmptyEvent ==
    [][/\ (pc # "start" /\ saved_log' # saved_log) => Len(output_db') > Len(output_db)
       /\ (CloseStep /\ (peak_time' = NoTime \/ WindowAround(all_data, peak_time') = <<>>))
             => (output_db' = output_db /\ throw_id' = throw_id /\ saved_log' = saved_log)]_vars

C13_Witness ==
    /\ HasClosed
    /\ peak_time = NoTime
    /\ output_db = <<>>
    /\ throw_id = StartThrowId

\* C14: a save that fails loses only its event: the run goes on with the
\* for loop of the source, and the failed event consumes no throw id.
C14_FailedSaveDoesNotAbort ==
    [][FailStep => (pc' = "loop" /\ throw_id' = throw_id /\ output_db' = output_db)]_vars

\* windows closed in the current source without a save
DroppedWindows == closed_windows - (throw_id - global_throw_id)

\* C15: a close that persists nothing leaves the segmenter IDLE inside the
\* for loop with the next sample to be fed, and from a source with a dropped
\* window the run reaches its end unless a save raises.
C15_DropsNeverHalt ==
    /\ [][(CloseStep /\ saved_log' = saved_log)
             => (pc' = "loop" /\ ~over_flag' /\ all_data' = all_data /\ idx' = idx + 1)]_vars
    /\ (InLoop /\ DroppedWindows > 0) ~> (pc = "done" \/ failed_saves > 0)

C15_Witness ==
    /\ InLoop
    /\ closed_windows = 2
    /\ DroppedWindows = 1
    /\ saved_log = <<StartThrowId>>

\* C16: a finished run leaves in the store only its own events, with the ids
\* StartThrowId, StartThrowId + 1, ...; a second run over the same files
\* leaves the store exactly as the first run left it.
C16_RerunIsIdempotent ==
    pc = "done" =>
        /\ StoredIds = {StartThrowId + k - 1 : k \in 1..Len(saved_log)}
        /\ run = 2 => output_db = prev_store

C16_Witness ==
    /\ pc = "done"
    /\ run = 2
    /\ Len(saved_log) = 2
    /\ output_db # <<>>
    /\ output_db = prev_store

\* C17: after the purge the store only grows at its end: the rows already
\* written stay as they are, and the rows a step adds carry a throw id that no
\* earlier row carries.
C17_AppendOnly ==
    [][pc # "start"
          => /\ Len(output_db') >= Len(output_db)
             /\ SubSeq(output_db', 1, Len(output_db)) = output_db
             /\ \A k \in 1..Len(NewRows) : NewRows[k].throw_id \notin StoredIds]_vars

C17_Witness ==
    /\ InLoop
    /\ Len(saved_log) >= 2
    /\ Cardinality(StoredIds) >= 2

\* C18: a source that ends while ARMED writes nothing for the open window and
\* returns the throw id as it is; the next source starts IDLE with an empty
\* buffer, counter 0, no peak_time and that throw id.
C18_OpenWindowDiscarded ==
    [][/\ (InLoop /\ pc' = "for_db" /\ over_flag)
             => (output_db' = output_db /\ saved_log' = saved_log
                   /\ global_throw_id' = throw_id)
       /\ (pc = "for_db" /\ pc' = "loop")
             => /\ ~over_flag'
                /\ data_queue' = <<>>
                /\ counter' = 0
                /\ peak_time' = NoTime
                /\ idx' = 0
                /\ throw_id' = global_throw_id
                /\ output_db' = output_db]_vars

C18_Witness ==
    /\ pc = "for_db"
    /\ file_idx = 1
    /\ n_files = 2
    /\ over_flag
    /\ counter > 0
    /\ peak_time # NoTime
    /\ saved_log = <<StartThrowId>>
    /\ global_throw_id = StartThrowId + 1

\* C19: the store changes only by a whole event: a step either leaves the
\* store as it is (a save that raises included) or adds, under the throw id of
\* a logged save, all the rows of the extracted window.
C19_EventAllOrNothing ==
    [][pc # "start"
          => \/ output_db' = output_db /\ saved_log' = saved_log
             \/ /\ SaveStep
                /\ Len(output_db') > Len(output_db)
                /\ SubSeq(output_db', 1, Len(output_db)) = output_db
                /\ Len(NewRows) = Len(WindowAround(all_data, peak_time'))
                /\ \A k \in 1..Len(NewRows) :
                      /\ NewRows[k].throw_id = throw_id
                      /\ RowOf(NewRows[k], WindowAround(all_data, peak_time')[k])]_vars

C19_Witness ==
    /\ pc = "aborted"
    /\ failed_saves = 1
    /\ saved_log = <<StartThrowId>>
    /\ StoredIds = {StartThrowId}

\* C20: after k samples of a source the buffer holds the last min(k, maxlen)
\* samples in arrival order, the sample just fed last.
C20_BufferHoldsLastSamples ==
    InLoop =>
        /\ Len(data_queue) = (IF idx <= maxlen THEN idx ELSE maxlen)
        /\ Len(data_queue) <= maxlen
        /\ \A k \in 1..Len(data_queue) :
              data_queue[k] = all_data[idx - Len(data_queue) + k]
        /\ idx > 0 => Last(data_queue) = all_data[idx]

C20_Witness ==
    /\ InLoop
    /\ idx = maxlen + 1
    /\ Len(data_queue) = maxlen
    /\ data_queue[1] = all_data[2]

\* C23: every sample above the threshold leaves the segmenter ARMED with the
\* counter at 1, whether it was IDLE or ARMED before, and while ARMED the
\* counter is the number of samples consumed from the most recent sample above
\* the threshold on, that sample included.
C23_RetriggerResetsCounter ==
    /\ [][(FeedStep /\ all_data[idx'].accel_x > limen)
             => (over_flag' /\ counter' = 1)]_vars
    /\ []((InLoop /\ over_flag)
             => (Triggers # {} /\ counter = idx - SetMax(Triggers) + 1))

C23_Witness ==
    /\ InLoop
    /\ over_flag
    /\ idx >= 3
    /\ armed_at = idx - 2
    /\ all_data[idx - 1].accel_x <= limen
    /\ all_data[idx].accel_x > limen
    /\ counter = 1

\* C24: every closed window holds at least two samples: the closing sample
\* and the sample consumed before it.
C24_CloseHasTwoSamples ==
    [][CloseStep
          => /\ Len(dq') >= 2
             /\ idx' >= 2
             /\ dq'[Len(dq')] = all_data[idx']
             /\ dq'[Len(dq') - 1] = all_data[idx' - 1]]_vars

C24_Witness ==
    /\ HasClosed
    /\ idx = 2
    /\ Len(dq) = 2
    /\ dq = <<all_data[1], all_data[2]>>

\* C25: a close on a sample that is not negative happens exactly maxlen
\* samples after the most recent sample above the threshold, with a full
\* buffer; the closed window is the maxlen samples consumed after that sample,
\* none of which is above the threshold.
C25_RunawayCloseWindow ==
    [][(CloseStep /\ all_data[idx'].accel_x >= 0)
          => /\ Triggers' # {}
             /\ idx' - SetMax(Triggers') = maxlen
             /\ Len(dq') = maxlen
             /\ \A k \in 1..Len(dq') :
                   /\ dq'[k] = all_data[SetMax(Triggers') + k]
                   /\ dq'[k].accel_x <= limen]_vars

C25_Witness ==
    /\ HasClosed
    /\ closed_windows = 1
    /\ idx = maxlen + 1
    /\ all_data[1].accel_x > limen
    /\ all_data[idx].accel_x = 0
    /\ Len(dq) = maxlen
    /\ dq[1] = all_data[2]

\* C26: the peak_time of every saved event is the received_at of a sample of
\* the window whose close saved the event.
C26_PeakInsideClosingWindow ==
    [][SaveStep => \E k \in 1..Len(dq') : dq'[k].received_at = peak_time']_vars

\* C27: the peak located by a window is the received_at of a sample of the
\* window that is not its first and has accel_x > 0, the rows saved for the
\* close hold that sample, and a close with a peak_time always saves at least
\* one row.
C27_LocatedPeakIsExtracted ==
    [][/\ (CloseStep /\ QualifyingPairs(dq') # {})
             => LET j == SetMax(QualifyingPairs(dq'))
                IN  /\ j >= 2
                    /\ dq'[j].accel_x > 0
                    /\ peak_time' = dq'[j].received_at
                    /\ SaveStep
                    /\ \E k \in 1..Len(NewRows) : RowOf(NewRows[k], dq'[j])
       /\ (CloseStep /\ peak_time' # NoTime)
             => (SaveStep /\ NewRows # <<>>)]_vars

C27_Witness ==
    /\ HasClosed
    /\ saved_log = <<StartThrowId>>
    /\ Len(output_db) = 1
    /\ output_db[1].received_at = peak_time
    /\ output_db[1].accel_x > 0
    /\ Len(all_data) >= 3

NonDecreasingTimestamps(w) ==
    \A k \in 2..Len(w) : w[k - 1].timestamp <= w[k].timestamp

\* C28: the velocity of a closed window whose device timestamps do not go
\* back is not negative, and it is positive when some adjacent pair with
\* dt > 0 has a positive acceleration at one of its ends.
C28_VelocityNonNegative ==
    (HasClosed /\ NonDecreasingTimestamps(dq))
        => /\ velocity >= 0
           /\ (\E k \in 2..Len(dq) :
                  /\ dq[k].timestamp > dq[k - 1].timestamp
                  /\ (dq[k - 1].accel_x > 0 \/ dq[k].accel_x > 0))
                 => velocity > 0

C28_Witness ==
    /\ HasClosed
    /\ Len(dq) = 3
    /\ dq[2].timestamp = dq[1].timestamp
    /\ dq[3].timestamp > dq[2].timestamp
    /\ dq[2].accel_x > 0
    /\ velocity > 0

\* the position in the source of a sample
PositionOf(sample) == CHOOSE i \in 1..Len(all_data) : all_data[i] = sample

\* C29: a closing iteration returns to IDLE and otherwise treats the buffer
\* and the counter as any iteration does: the buffer is not emptied and the
\* counter, not reset, keeps its value until the next sample above the
\* threshold; a window closed fewer than maxlen samples after the previous
\* close holds samples of the previous window.
C29_CloseKeepsBufferAndCounter ==
    [][/\ CloseStep
             => /\ ~over_flag'
                /\ data_queue' = (IF Len(data_queue) < maxlen
                                  THEN Append(data_queue, all_data[idx'])
                                  ELSE Append(Tail(data_queue), all_data[idx']))
                /\ counter' = counter + 1
                /\ (closed_windows > 0 /\ idx' - PositionOf(Last(dq)) < maxlen)
                      => \E k \in 1..Len(dq') : dq'[k] = Last(dq)
       /\ (FeedStep /\ ~over_flag /\ ~over_flag') => counter' = counter]_vars

C29_Witness ==
    /\ HasClosed
    /\ closed_windows = 2
    /\ idx = 4
    /\ all_data[2].accel_x < 0
    /\ all_data[4].accel_x < 0
    /\ dq = <<all_data[1], all_data[2], all_data[3], all_data[4]>>
    /\ counter = 2

\* C30: at most one send_data_loop thread is alive at any time, whatever the
\* order of the start_sending, stop_sending and start_replay calls, also after
\* a stop_sending whose join timed out on a sleeping loop.
C30_AtMostOneSendThread == Cardinality(Alive) <= 1

====
